---------------------------- MODULE Spec2Model ----------------------------
(***************************************************************************)
(* A model of src/main.py (seismic-quality-map): the header locators, the  *)
(* fixed-width column derivation, the Line/Area name normalizers and the   *)
(* Access loader (createTable, addPrimaryKeys, to_access).                 *)
(*                                                                         *)
(* A Python str is a sequence of one-character strings.  A Python value    *)
(* that may be None is a record [none, s].  The result of a call is a      *)
(* record holding the returned value, what the call printed and the        *)
(* exception that left the call ("" when none did).                        *)
(***************************************************************************)
EXTENDS Integers, Sequences, FiniteSets, Bags, TLC

VARIABLES
    nname, nkind, nout, nfirst, npc,      \* normalizer: input, entry point, result, first result, position
    doc, mark, hconv, hout, hpc,          \* header locator: file lines, marker, convention, result, position
    wout, wcols, wpc,                     \* fixed-width: result of _widths_skiprows, sliced header, position
    tables, conns, pc, df, tname, ctp, i, \* loader: the store, open connections, to_access's frame
    out, exc, step, loads                 \* loader: what the last statement printed and raised, that statement, calls made

nvars == <<nname, nkind, nout, nfirst, npc>>
hvars == <<doc, mark, hconv, hout, hpc>>
wvars == <<wout, wcols, wpc>>
lvars == <<tables, conns, pc, df, tname, ctp, i, out, exc, step, loads>>
vars == <<nvars, hvars, wvars, lvars>>

---------------------------------------------------------------------------
(* Bounds of the model. *)

\* longest name handed to a normalizer
MaxNameLen == 7
\* most lines in a file handed to a header locator
MaxLines == 3
\* longest line of such a file
MaxLineLen == 2
\* longest header line (without its line terminator) handed to _widths_skiprows
MaxHdrLen == 6
\* most rows of a DataFrame handed to to_access
MaxRows == 2
\* largest integer held by a DataFrame cell
MaxVal == 2
\* most to_access / createTable / addPrimaryKeys calls in one run
MaxLoads == 2

---------------------------------------------------------------------------
(* Python values. *)

PyNone == [none |-> TRUE, s |-> <<>>]
PyStr(s) == [none |-> FALSE, s |-> s]

NoPrint == <<>>

Lower == <<"a","b","c","d","e","f","g","h","i","j","k","l","m",
           "n","o","p","q","r","s","t","u","v","w","x","y","z">>
Upper == <<"A","B","C","D","E","F","G","H","I","J","K","L","M",
           "N","O","P","Q","R","S","T","U","V","W","X","Y","Z">>

Range(f) == {f[x] : x \in DOMAIN f}

\* [a-zA-Z]
Letters == Range(Lower) \cup Range(Upper)
\* [0-9]
Digits == {"0","1","2","3","4","5","6","7","8","9"}
\* [_-]
Seps == {"_", "-"}
\* \s
Spaces == {" ", "\t", "\n", "\r"}

\* str.upper() on one character
UpperChar(c) ==
    IF c \in Range(Lower)
    THEN Upper[CHOOSE k \in DOMAIN Lower : Lower[k] = c]
    ELSE c

\* str.upper()
UpperStr(s) == [k \in DOMAIN s |-> UpperChar(s[k])]

\* the length of the longest run of characters of class C that starts at s[k]
RECURSIVE RunLen(_, _, _)
RunLen(s, k, C) ==
    IF k > Len(s) \/ s[k] \notin C THEN 0 ELSE 1 + RunLen(s, k + 1, C)

Slice(s, from, len) == SubSeq(s, from, from + len - 1)

---------------------------------------------------------------------------
(* NameNormalizer: _chano, normNameLine, normNameArea. *)

\* a mutation of _chano: the century is prefixed to every year shorter than 4 digits
chanoShort(ano) == IF Len(ano) < 4 THEN <<"1", "9">> \o ano ELSE ano

_chano(ano) == IF Len(ano) = 2 THEN <<"1", "9">> \o ano ELSE ano

\* re.compile(r'^([a-zA-Z]+)[_-]*([0-9]+)[_-]+([0-9]+)').search(s).  Adjacent atoms
\* match disjoint character classes, so the greedy match is the only match: each
\* atom takes the longest run of its class.
plineSearch(s) ==
    LET l  == RunLen(s, 1, Letters)
        p1 == RunLen(s, 1 + l, Seps)
        d1 == RunLen(s, 1 + l + p1, Digits)
        p2 == RunLen(s, 1 + l + p1 + d1, Seps)
        d2 == RunLen(s, 1 + l + p1 + d1 + p2, Digits)
    IN  IF l >= 1 /\ d1 >= 1 /\ p2 >= 1 /\ d2 >= 1
        THEN [matched |-> TRUE,
              groups |-> <<Slice(s, 1, l), Slice(s, 1 + l + p1, d1),
                           Slice(s, 1 + l + p1 + d1 + p2, d2)>>]
        ELSE [matched |-> FALSE, groups |-> <<>>]

\* re.compile(r'^([a-zA-Z]+)[_-]+([0-9]+)').search(s)
pareaSearch(s) ==
    LET l  == RunLen(s, 1, Letters)
        p1 == RunLen(s, 1 + l, Seps)
        d1 == RunLen(s, 1 + l + p1, Digits)
    IN  IF l >= 1 /\ p1 >= 1 /\ d1 >= 1
        THEN [matched |-> TRUE,
              groups |-> <<Slice(s, 1, l), Slice(s, 1 + l + p1, d1)>>]
        ELSE [matched |-> FALSE, groups |-> <<>>]

ErrorMsg(kind, name) == [text |-> "don't match", kind |-> kind, raw |-> name]

Result(ret, printed, raised) == [ret |-> ret, printed |-> printed, exc |-> raised]

\* normNameLine(name).  pline.search(name) of line 111 stands before the try: on
\* None it raises TypeError, which no handler catches.  In the try, a failed
\* search gives None, whose .groups() raises AttributeError: caught, printed.
normNameLine(name) ==
    IF name.none
    THEN Result(PyNone, NoPrint, "TypeError")
    ELSE LET m == plineSearch(name.s)
         IN  IF ~m.matched
             THEN Result(PyNone, <<ErrorMsg("Line", name)>>, "")
             ELSE Result(PyStr(UpperStr(m.groups[1] \o <<"-">> \o _chano(m.groups[2])
                                         \o <<"-">> \o m.groups[3])),
                         NoPrint, "")

\* normNameArea(name).  parea.search(name) stands in the try: the TypeError on
\* None and the AttributeError on no match are both caught and printed.  The
\* year group is not passed through _chano.
normNameArea(name) ==
    IF name.none
    THEN Result(PyNone, <<ErrorMsg("Area", name)>>, "")
    ELSE LET m == pareaSearch(name.s)
         IN  IF ~m.matched
             THEN Result(PyNone, <<ErrorMsg("Area", name)>>, "")
             ELSE Result(PyStr(UpperStr(m.groups[1] \o <<"-">> \o m.groups[2])),
                         NoPrint, "")

\* the dictionary normName of addmeta
normName(kind, name) ==
    IF kind = "Line" THEN normNameLine(name) ELSE normNameArea(name)

NameAlphabet == {"a", "9", "_", "-", "."}

SeqsUpTo(S, n) == UNION {[1..k -> S] : k \in 0..n}

\* what promax2meta or targetInCol hands to a normalizer: a text, or None
NameInputs == {PyStr(s) : s \in SeqsUpTo(NameAlphabet, MaxNameLen)} \cup {PyNone}

NoResult == Result(PyNone, NoPrint, "")

NormIdle ==
    /\ nname = PyNone
    /\ nkind = "Line"
    /\ nout = NoResult
    /\ nfirst = NoResult
    /\ npc = "ready"

NormInit ==
    /\ nname \in NameInputs
    /\ nkind \in {"Line", "Area"}
    /\ nout = NoResult
    /\ nfirst = NoResult
    /\ npc = "ready"

\* line = normNameLine(promax2meta(...)) of main, or normName['Line'](...) of addmeta
CallNormNameLine ==
    /\ npc = "ready"
    /\ nkind = "Line"
    /\ nout' = normNameLine(nname)
    /\ nfirst' = nout'
    /\ npc' = "called"
    /\ UNCHANGED <<nname, nkind>>
    /\ UNCHANGED <<hvars, wvars, lvars>>

\* area = normNameArea(promax2meta(...)) of main, or normName['Area'](...) of addmeta
CallNormNameArea ==
    /\ npc = "ready"
    /\ nkind = "Area"
    /\ nout' = normNameArea(nname)
    /\ nfirst' = nout'
    /\ npc' = "called"
    /\ UNCHANGED <<nname, nkind>>
    /\ UNCHANGED <<hvars, wvars, lvars>>

\* the same normalizer applied to the value it returned
CallNormAgain ==
    /\ npc = "called"
    /\ nout.exc = ""
    /\ ~nout.ret.none
    /\ nname' = nout.ret
    /\ nout' = normName(nkind, nout.ret)
    /\ npc' = "again"
    /\ UNCHANGED <<nkind, nfirst>>
    /\ UNCHANGED <<hvars, wvars, lvars>>

---------------------------------------------------------------------------
(* HeaderLocator: _skiprows_header_after, _skiprows_header_before. *)

\* r[:len(mark)] == mark
StartsWith(r, m) == Len(r) >= Len(m) /\ SubSeq(r, 1, Len(m)) = m

\* the tuple (n, r) a locator returns, or the None it returns by falling off its end
HdrRet(n, r) == [none |-> FALSE, n |-> n, r |-> r]
HdrNone == [none |-> TRUE, n |-> 0, r |-> <<>>]

\* the for loop of _skiprows_header_after from the k-th line on (n = k - 1)
RECURSIVE AfterScan(_, _, _, _)
AfterScan(d, m, k, return_next) ==
    IF k > Len(d)
    THEN Result(HdrNone, NoPrint, "")
    ELSE IF return_next
         THEN Result(HdrRet(k - 1, d[k]), NoPrint, "")
         ELSE AfterScan(d, m, k + 1, StartsWith(d[k], m))

_skiprows_header_after(d, m) == AfterScan(d, m, 1, FALSE)

\* the for loop of _skiprows_header_before from the k-th line on (n = k - 1);
\* rold is None while the local rold is still unbound
RECURSIVE BeforeScan(_, _, _, _)
BeforeScan(d, m, k, rold) ==
    IF k > Len(d)
    THEN Result(HdrNone, NoPrint, "")
    ELSE IF StartsWith(d[k], m)
         THEN IF rold.none
              THEN Result(HdrNone, NoPrint, "UnboundLocalError")
              ELSE Result(HdrRet(k - 1, rold.s), NoPrint, "")
         ELSE BeforeScan(d, m, k + 1, PyStr(d[k]))

\* a mutation of _skiprows_header_before: the marked line is returned, not the one before it
RECURSIVE BeforeScanMarked(_, _, _)
BeforeScanMarked(d, m, k) ==
    IF k > Len(d)
    THEN Result(HdrNone, NoPrint, "")
    ELSE IF StartsWith(d[k], m)
         THEN Result(HdrRet(k - 1, d[k]), NoPrint, "")
         ELSE BeforeScanMarked(d, m, k + 1)

skiprowsHeaderBeforeMarked(d, m) == BeforeScanMarked(d, m, 1)

_skiprows_header_before(d, m) == BeforeScan(d, m, 1, PyNone)

\* skiprows, header = <locator>(doc, mark), lines 17 and 46: None does not unpack
UnpackHeader(res) ==
    IF res.exc # "" THEN res
    ELSE IF res.ret.none THEN Result(HdrNone, NoPrint, "TypeError")
    ELSE res

LineAlphabet == {"<", "h"}
\* the markers the program looks for: '<' (promaxdb2df) and '<<' (_widths_skiprows)
Marks == {<<"<">>, <<"<", "<">>}
HdrDocs == SeqsUpTo(SeqsUpTo(LineAlphabet, MaxLineLen), MaxLines)

HdrIdle ==
    /\ doc = <<>>
    /\ mark = <<"<">>
    /\ hconv = "before"
    /\ hout = Result(HdrNone, NoPrint, "")
    /\ hpc = "ready"

HdrInit ==
    /\ doc \in HdrDocs
    /\ mark \in Marks
    /\ hconv \in {"before", "after"}
    /\ hout = Result(HdrNone, NoPrint, "")
    /\ hpc = "ready"

LocateBefore ==
    /\ hpc = "ready"
    /\ hconv = "before"
    /\ hout' = _skiprows_header_before(doc, mark)
    /\ hpc' = "located"
    /\ UNCHANGED <<doc, mark, hconv>>
    /\ UNCHANGED <<nvars, wvars, lvars>>

LocateAfter ==
    /\ hpc = "ready"
    /\ hconv = "after"
    /\ hout' = _skiprows_header_after(doc, mark)
    /\ hpc' = "located"
    /\ UNCHANGED <<doc, mark, hconv>>
    /\ UNCHANGED <<nvars, wvars, lvars>>

\* the caller takes the pair apart
Unpack ==
    /\ hpc = "located"
    /\ hout' = UnpackHeader(hout)
    /\ hpc' = "unpacked"
    /\ UNCHANGED <<doc, mark, hconv>>
    /\ UNCHANGED <<nvars, wvars, lvars>>

---------------------------------------------------------------------------
(* FixedWidthTableParser: _widths_skiprows and the header row of read_fwf. *)

\* [m.start() for m in re.finditer(r'\s+', header)]: the 0-based offsets at which
\* the maximal whitespace runs of s start, from s[k] on
RECURSIVE RunStarts(_, _)
RunStarts(s, k) ==
    IF k > Len(s) THEN <<>>
    ELSE IF s[k] \in Spaces /\ (k = 1 \/ s[k - 1] \notin Spaces)
         THEN <<k - 1>> \o RunStarts(s, k + 1)
         ELSE RunStarts(s, k + 1)

\* [t - s for s, t in zip(w, w[1:])]
Diffs(w) == [k \in 1..(IF Len(w) = 0 THEN 0 ELSE Len(w) - 1) |-> w[k + 1] - w[k]]

WidthsRet(w, skiprows) == [none |-> FALSE, w |-> w, skiprows |-> skiprows]
WidthsNone == [none |-> TRUE, w |-> <<>>, skiprows |-> 0]

\* a mutation of _widths_skiprows: the first width is not widened
widthsSkiprowsNoWiden(d) ==
    LET h == UnpackHeader(_skiprows_header_after(d, <<"<", "<">>))
    IN  IF h.exc # "" THEN Result(WidthsNone, NoPrint, h.exc)
        ELSE LET w == Diffs(RunStarts(h.ret.r, 1))
             IN  IF Len(w) = 0
                 THEN Result(WidthsNone, NoPrint, "IndexError")
                 ELSE Result(WidthsRet(w, h.ret.n), NoPrint, "")

\* _widths_skiprows(doc): w[0] = w[0] + 1 raises IndexError on an empty list
_widths_skiprows(d) ==
    LET h == UnpackHeader(_skiprows_header_after(d, <<"<", "<">>))
    IN  IF h.exc # "" THEN Result(WidthsNone, NoPrint, h.exc)
        ELSE LET w == Diffs(RunStarts(h.ret.r, 1))
             IN  IF Len(w) = 0
                 THEN Result(WidthsNone, NoPrint, "IndexError")
                 ELSE Result(WidthsRet([w EXCEPT ![1] = w[1] + 1], h.ret.n), NoPrint, "")

RECURSIVE SumSeq(_)
SumSeq(w) == IF Len(w) = 0 THEN 0 ELSE w[1] + SumSeq(Tail(w))

\* s[a:b] of Python, a and b 0-based and clamped to the length of s
PySlice(s, a, b) ==
    LET lo == IF a > Len(s) THEN Len(s) ELSE a
        hi == IF b > Len(s) THEN Len(s) ELSE b
    IN  SubSeq(s, lo + 1, hi)

\* str.strip() of whitespace
RECURSIVE LStrip(_)
LStrip(s) == IF Len(s) > 0 /\ s[1] \in Spaces THEN LStrip(Tail(s)) ELSE s
RECURSIVE RStrip(_)
RStrip(s) ==
    IF Len(s) > 0 /\ s[Len(s)] \in Spaces THEN RStrip(SubSeq(s, 1, Len(s) - 1)) ELSE s
Strip(s) == LStrip(RStrip(s))

\* the row read_fwf(doc, skiprows=skiprows, widths=widths) takes the column names
\* from: line number skiprows cut at the cumulative widths, each piece stripped
FwfHeaderRow(d, w, skiprows) ==
    LET line == d[skiprows + 1]
    IN  [k \in DOMAIN w |->
            Strip(PySlice(line, SumSeq(SubSeq(w, 1, k - 1)), SumSeq(SubSeq(w, 1, k))))]

\* header.split(): the maximal runs of non-whitespace characters, in order
RECURSIVE Split(_)
Split(s) ==
    LET t == LStrip(s)
        n == RunLen(t, 1, {c \in Range(t) : c \notin Spaces})
    IN  IF Len(t) = 0 THEN <<>>
        ELSE <<SubSeq(t, 1, n)>> \o Split(SubSeq(t, n + 1, Len(t)))

HdrAlphabet == {"A", "B", " "}
NewLine == <<"\n">>
MarkLine == <<"<", "<", "\n">>
\* a '<<' line, then the header line: terminated, or the unterminated last line of the file
FwfDocs ==
    {<<MarkLine, b \o NewLine>> : b \in SeqsUpTo(HdrAlphabet, MaxHdrLen)}
    \cup {<<MarkLine, b>> : b \in SeqsUpTo(HdrAlphabet, MaxHdrLen) \ {<<>>}}
    \cup {<<MarkLine>>}

FwfIdle ==
    /\ wout = Result(WidthsNone, NoPrint, "")
    /\ wcols = <<>>
    /\ wpc = "ready"

FwfInit ==
    /\ doc \in FwfDocs
    /\ mark = <<"<", "<">>
    /\ hconv = "after"
    /\ hout = Result(HdrNone, NoPrint, "")
    /\ hpc = "ready"
    /\ FwfIdle

\* widths, skiprows = _widths_skiprows(doc), line 61
CallWidthsSkiprows ==
    /\ wpc = "ready"
    /\ wout' = _widths_skiprows(doc)
    /\ wpc' = "widths"
    /\ UNCHANGED <<wcols, hvars>>
    /\ UNCHANGED <<nvars, lvars>>

\* pd.read_fwf(doc, skiprows=skiprows, widths=widths), line 62: the header row
ReadFwfHeader ==
    /\ wpc = "widths"
    /\ wout.exc = ""
    /\ wcols' = FwfHeaderRow(doc, wout.ret.w, wout.ret.skiprows)
    /\ wpc' = "read"
    /\ UNCHANGED <<wout, hvars>>
    /\ UNCHANGED <<nvars, lvars>>

---------------------------------------------------------------------------
(* SchemaInferer: _chtype, _chformat, _chname, cols. *)

\* a cell of a DataFrame or a value handed to the store: an integer (n) or a text (s)
IntCell(n) == [ty |-> "int64", n |-> n, s |-> ""]
StrCell(s) == [ty |-> "O", n |-> 0, s |-> s]
Null == [ty |-> "null", n |-> 0, s |-> ""]

_chtype(x) ==
    IF x = "float64" THEN "double"
    ELSE IF x = "int64" THEN "int"
    ELSE IF x = "O" THEN "text"
    ELSE "None"

\* float(x) for a number, str(x) for a text, None for anything else
_chformat(x) ==
    IF x.ty \in {"float64", "int64"} THEN [ty |-> "float", n |-> x.n, s |-> ""]
    ELSE IF x.ty = "O" THEN [ty |-> "str", n |-> 0, s |-> x.s]
    ELSE Null

\* x[:-1] if x[-1] == '*' else x
_chname(x) == IF x[Len(x)] = "*" THEN SubSeq(x, 1, Len(x) - 1) ELSE x

\* cols(df): (name, type, props) of the index, then of every column
cols(d) ==
    LET one(col, isIndex) ==
            [c |-> _chname(col.name),
             t |-> _chtype(col.dtype),
             p |-> IF isIndex \/ col.name[Len(col.name)] = "*" THEN "PRIMARY KEY" ELSE ""]
    IN  <<one(d.index, TRUE)>> \o [k \in DOMAIN d.columns |-> one(d.columns[k], FALSE)]

---------------------------------------------------------------------------
(* The store, as the program consumes it: CREATE TABLE, ALTER TABLE ADD      *)
(* PRIMARY KEY and INSERT INTO through cursor.execute, each returning the    *)
(* store after the statement and the pyodbc exception it raised ("" if none).*)

\* a table: its columns, its primary key (<<>> when none is declared) and the bag of its rows
NoTable == [exists |-> FALSE, fields |-> <<>>, pk |-> <<>>, rows |-> EmptyBag]

FieldNames(tb) == {tb.fields[k].c : k \in DOMAIN tb.fields}

\* two stored rows agree on every column of the key
SameKey(pk, r1, r2) == \A k \in DOMAIN pk : r1[pk[k]] = r2[pk[k]]

\* cursor.execute("CREATE TABLE %s(%s)"), line 232
ExecCreate(tbs, name, fields) ==
    IF tbs[name].exists
    THEN [tables |-> tbs, err |-> "ProgrammingError"]
    ELSE [tables |-> [tbs EXCEPT ![name] =
                        [exists |-> TRUE, fields |-> fields, pk |-> <<>>, rows |-> EmptyBag]],
          err |-> ""]

\* cursor.execute("ALTER TABLE %s ADD PRIMARY KEY (%s)"), lines 255-256
ExecAlter(tbs, name, pk) ==
    LET tb == tbs[name]
        ok == /\ tb.exists
              /\ Len(tb.pk) = 0
              /\ Len(pk) > 0
              /\ \A k \in DOMAIN pk : pk[k] \in FieldNames(tb)
              /\ \A a, b \in BagToSet(tb.rows) :
                    /\ \A k \in DOMAIN pk : a[pk[k]] # Null
                    /\ CopiesIn(a, tb.rows) = 1
                    /\ a # b => ~SameKey(pk, a, b)
    IN  IF ok
        THEN [tables |-> [tbs EXCEPT ![name].pk = pk], err |-> ""]
        ELSE [tables |-> tbs, err |-> "Error"]

\* the row INSERT INTO name(c) VALUES (values) stores: named columns, the rest NULL
NewRow(tb, c, values) ==
    [f \in FieldNames(tb) |->
        IF \E k \in DOMAIN c : c[k] = f
        THEN values[CHOOSE k \in DOMAIN c : c[k] = f]
        ELSE Null]

\* cursor.execute(sql_ins, values), line 296
ExecInsert(tbs, name, c, values) ==
    LET tb == tbs[name]
        row == NewRow(tb, c, values)
    IN  IF ~tb.exists \/ \E k \in DOMAIN c : c[k] \notin FieldNames(tb)
        THEN [tables |-> tbs, err |-> "ProgrammingError"]
        ELSE IF /\ Len(tb.pk) > 0
                /\ \/ \E k \in DOMAIN tb.pk : row[tb.pk[k]] = Null
                   \/ \E a \in BagToSet(tb.rows) : SameKey(tb.pk, a, row)
             THEN [tables |-> tbs, err |-> "IntegrityError"]
             ELSE [tables |-> [tbs EXCEPT ![name].rows = @ (+) SetToBag({row})], err |-> ""]

---------------------------------------------------------------------------
(* TableLoader: createTable, addPrimaryKeys, to_access.  Each gives the      *)
(* store it leaves, the lines it printed, the exception that left it and    *)
(* the connections it opened and did not close.                             *)

Msg(text, name, key) == [text |-> text, name |-> name, key |-> key]

Outcome(tbs, printed, raised, open) ==
    [tables |-> tbs, printed |-> printed, exc |-> raised, open |-> open]

\* a mutation of createTable: the ProgrammingError of an existing table is not caught
createTableUncaught(tbs, fields, tableName) ==
    LET r == ExecCreate(tbs, tableName, fields)
    IN  IF r.err = "" THEN Outcome(r.tables, <<>>, "", 0)
        ELSE Outcome(r.tables, <<>>, r.err, 1)

\* createTable(doc, fields, tableName): connect, execute and commit; only
\* pyodbc.ProgrammingError is caught; cursor.close() and conn.close() follow the try
createTable(tbs, fields, tableName) ==
    LET r == ExecCreate(tbs, tableName, fields)
    IN  IF r.err = "" THEN Outcome(r.tables, <<>>, "", 0)
        ELSE IF r.err = "ProgrammingError"
             THEN Outcome(r.tables, <<Msg("Warning: Table already exists", tableName, Null)>>, "", 0)
             ELSE Outcome(r.tables, <<>>, r.err, 1)

\* addPrimaryKeys(doc, primaryKeys, tableName): every Exception is caught
addPrimaryKeys(tbs, primaryKeys, tableName) ==
    LET r == ExecAlter(tbs, tableName, primaryKeys)
    IN  IF r.err = "" THEN Outcome(r.tables, <<>>, "", 0)
        ELSE Outcome(r.tables,
                     <<Msg("Warning: Primary keys already exits", tableName, Null)>>, "", 0)

\* tuple(map(_chformat, row))
FormatRow(row) == [k \in DOMAIN row |-> _chformat(row[k])]

\* a mutation of the insert loop's body: the IntegrityError is not caught
insertRowUncaught(tbs, tableName, c, row) ==
    LET r == ExecInsert(tbs, tableName, c, FormatRow(row))
    IN  IF r.err = "" THEN Outcome(r.tables, <<>>, "", 0)
        ELSE Outcome(r.tables, <<>>, r.err, 1)

\* the body of the for loop of to_access, lines 295-299: only pyodbc.IntegrityError
\* is caught; any other exception leaves to_access with its connection open
insertRow(tbs, tableName, c, row) ==
    LET r == ExecInsert(tbs, tableName, c, FormatRow(row))
    IN  IF r.err = "" THEN Outcome(r.tables, <<>>, "", 0)
        ELSE IF r.err = "IntegrityError"
             THEN Outcome(r.tables,
                          <<Msg("already exists. Not inserted", c[1], row[1])>>, "", 0)
             ELSE Outcome(r.tables, <<>>, r.err, 1)

\* lines 277-280 of to_access
ColNames(x) == [k \in DOMAIN x |-> x[k].c]
Fields(x) == [k \in DOMAIN x |-> [c |-> x[k].c, t |-> x[k].t]]
RECURSIVE PrimaryKeys(_)
PrimaryKeys(x) ==
    IF Len(x) = 0 THEN <<>>
    ELSE (IF x[1].p = "PRIMARY KEY" THEN <<x[1].c>> ELSE <<>>) \o PrimaryKeys(Tail(x))

---------------------------------------------------------------------------
(* The loader as a state machine: the public calls createTable and           *)
(* addPrimaryKeys, and to_access statement by statement.                     *)

TableNames == {<<"K">>, <<"T">>}

KIndex == [name |-> <<"K", "*">>, dtype |-> "int64"]
VColumn == [name |-> <<"V">>, dtype |-> "int64"]
LColumn == [name |-> <<"L", "*">>, dtype |-> "O"]
LineVals == {"x", "y"}

\* the index values of a DataFrame, row by row: in file order they do not
\* decrease, and promaxdb2df does not make them unique
IndexSeqs ==
    {ks \in UNION {[1..k -> 1..MaxVal] : k \in 0..MaxRows} :
        \A a, b \in DOMAIN ks : a < b => ks[a] <= ks[b]}

\* a table as promaxdb2df leaves it: an integer index K* and a column V; the
\* frames tried hold one value in the whole column V
PlainFrames ==
    {[index |-> KIndex, columns |-> <<VColumn>>,
      rows |-> [k \in DOMAIN ks |-> <<IntCell(ks[k]), IntCell(v)>>]] :
        ks \in IndexSeqs, v \in 1..MaxVal}

\* a table as addmeta leaves it: the column L* holds one text in every row
MetaFrames ==
    {[index |-> KIndex, columns |-> <<LColumn, VColumn>>,
      rows |-> [k \in DOMAIN ks |-> <<IntCell(ks[k]), StrCell(l), IntCell(1)>>]] :
        ks \in IndexSeqs, l \in LineVals}

DataFrames == PlainFrames \cup MetaFrames

NoFrame == [index |-> KIndex, columns |-> <<VColumn>>, rows |-> <<>>]

\* tableName of to_access: None (the default) or a name
TableArgs == {PyNone, PyStr(<<"T">>)}

\* the arguments createTable and addPrimaryKeys are called with on their own
FieldLists == {Fields(cols(d)) : d \in {f \in DataFrames : Len(f.rows) = 0}}
KeyLists == {<<<<"K">>>>, <<<<"V">>>>}

LoadIdle ==
    /\ tables = [n \in TableNames |-> NoTable]
    /\ conns = 0
    /\ pc = "idle"
    /\ df = NoFrame
    /\ tname = <<"K">>
    /\ ctp = <<>>
    /\ i = 0
    /\ out = <<>>
    /\ exc = ""
    /\ step = "none"
    /\ loads = 0

\* createTable(doc, fields, tableName) called on its own
CreateTable(fields, name) ==
    /\ pc = "idle"
    /\ loads < MaxLoads
    /\ LET r == createTable(tables, fields, name)
       IN  /\ tables' = r.tables
           /\ out' = r.printed
           /\ exc' = r.exc
           /\ conns' = conns + r.open
    /\ tname' = name
    /\ step' = "createTable"
    /\ loads' = loads + 1
    /\ UNCHANGED <<pc, df, ctp, i>>
    /\ UNCHANGED <<nvars, hvars, wvars>>

\* addPrimaryKeys(doc, primaryKeys, tableName) called on its own
AddPrimaryKeys(pk, name) ==
    /\ pc = "idle"
    /\ loads < MaxLoads
    /\ LET r == addPrimaryKeys(tables, pk, name)
       IN  /\ tables' = r.tables
           /\ out' = r.printed
           /\ exc' = r.exc
           /\ conns' = conns + r.open
    /\ tname' = name
    /\ step' = "addPrimaryKeys"
    /\ loads' = loads + 1
    /\ UNCHANGED <<pc, df, ctp, i>>
    /\ UNCHANGED <<nvars, hvars, wvars>>

\* to_access(doc, df, tableName), lines 276-281
ToAccessStart(d, tableName) ==
    /\ pc = "idle"
    /\ loads < MaxLoads
    /\ df' = d
    /\ ctp' = cols(d)
    /\ tname' = IF tableName.none THEN ColNames(cols(d))[1] ELSE tableName.s
    /\ out' = <<Msg("Table created in access", tname', Null)>>
    /\ exc' = ""
    /\ i' = 0
    /\ pc' = "createTable"
    /\ step' = "to_access"
    /\ loads' = loads + 1
    /\ UNCHANGED <<tables, conns>>
    /\ UNCHANGED <<nvars, hvars, wvars>>

\* to_access goes on to its next statement with its locals kept
Continue(next, row) ==
    /\ pc' = next
    /\ i' = row
    /\ UNCHANGED <<df, ctp>>

\* to_access is left, by its end or by an exception: its locals are gone
Leave ==
    /\ pc' = "idle"
    /\ i' = 0
    /\ df' = NoFrame
    /\ ctp' = <<>>

\* createTable(doc, fields, tableName), line 283
ToAccessCreateTable ==
    /\ pc = "createTable"
    /\ LET r == createTable(tables, Fields(ctp), tname)
       IN  /\ tables' = r.tables
           /\ out' = r.printed
           /\ exc' = r.exc
           /\ conns' = conns + r.open
           /\ IF r.exc = "" THEN Continue("addPrimaryKeys", i) ELSE Leave
    /\ step' = "createTable"
    /\ UNCHANGED <<tname, loads>>
    /\ UNCHANGED <<nvars, hvars, wvars>>

\* addPrimaryKeys(doc, pk, tableName), line 284
ToAccessAddPrimaryKeys ==
    /\ pc = "addPrimaryKeys"
    /\ LET r == addPrimaryKeys(tables, PrimaryKeys(ctp), tname)
       IN  /\ tables' = r.tables
           /\ out' = r.printed
           /\ exc' = r.exc
           /\ conns' = conns + r.open
           /\ IF r.exc = "" THEN Continue("connect", i) ELSE Leave
    /\ step' = "addPrimaryKeys"
    /\ UNCHANGED <<tname, loads>>
    /\ UNCHANGED <<nvars, hvars, wvars>>

\* conn = pyodbc.connect(odbc); cursor = conn.cursor(), lines 287-292
ToAccessConnect ==
    /\ pc = "connect"
    /\ conns' = conns + 1
    /\ i' = 1
    /\ pc' = "insert"
    /\ step' = "connect"
    /\ out' = <<>>
    /\ UNCHANGED <<tables, df, tname, ctp, exc, loads>>
    /\ UNCHANGED <<nvars, hvars, wvars>>

\* one turn of for row in df.itertuples(), lines 294-299; an exception that is
\* not caught leaves to_access before cursor.close() and conn.close()
ToAccessInsert ==
    /\ pc = "insert"
    /\ i <= Len(df.rows)
    /\ LET r == insertRow(tables, tname, ColNames(ctp), df.rows[i])
       IN  /\ tables' = r.tables
           /\ out' = r.printed
           /\ exc' = r.exc
           /\ IF r.exc = "" THEN Continue("insert", i + 1) ELSE Leave
    /\ step' = "insert"
    /\ UNCHANGED <<conns, tname, loads>>
    /\ UNCHANGED <<nvars, hvars, wvars>>

\* cursor.close(); del cursor; conn.close(), lines 301-303
ToAccessClose ==
    /\ pc = "insert"
    /\ i > Len(df.rows)
    /\ conns' = conns - 1
    /\ Leave
    /\ step' = "close"
    /\ out' = <<>>
    /\ UNCHANGED <<tables, tname, exc, loads>>
    /\ UNCHANGED <<nvars, hvars, wvars>>

---------------------------------------------------------------------------
(* The specifications. *)

\* the loader
Init == NormIdle /\ HdrIdle /\ FwfIdle /\ LoadIdle

Next ==
    \/ \E f \in FieldLists, n \in TableNames : CreateTable(f, n)
    \/ \E k \in KeyLists, n \in TableNames : AddPrimaryKeys(k, n)
    \/ \E d \in DataFrames, n \in TableArgs : ToAccessStart(d, n)
    \/ ToAccessCreateTable
    \/ ToAccessAddPrimaryKeys
    \/ ToAccessConnect
    \/ ToAccessInsert
    \/ ToAccessClose

Spec == Init /\ [][Next]_vars

\* the name normalizers
InitNorm == NormInit /\ HdrIdle /\ FwfIdle /\ LoadIdle

NextNorm ==
    \/ CallNormNameLine
    \/ CallNormNameArea
    \/ CallNormAgain

SpecNorm == InitNorm /\ [][NextNorm]_vars

\* the header locators
InitHdr == NormIdle /\ HdrInit /\ FwfIdle /\ LoadIdle

NextHdr ==
    \/ LocateBefore
    \/ LocateAfter
    \/ Unpack

SpecHdr == InitHdr /\ [][NextHdr]_vars

\* the fixed-width column derivation
InitFwf == NormIdle /\ FwfInit /\ LoadIdle

NextFwf ==
    \/ CallWidthsSkiprows
    \/ ReadFwfHeader

SpecFwf == InitFwf /\ [][NextFwf]_vars

---------------------------------------------------------------------------
(* The loader's claims, checked under Spec. *)

\* the row the insert loop is about to offer, as the store would hold it
Offered == NewRow(tables[tname], ColNames(ctp), FormatRow(df.rows[i]))

\* the stored rows of table tb that carry the key of row r
Holders(tb, r) == {a \in BagToSet(tb.rows) : SameKey(tb.pk, a, r)}

\* to_access is about to insert, into a table that has the frame's columns and a
\* declared primary key, a row whose key a stored row already carries
DuplicateOffered ==
    /\ pc = "insert"
    /\ i <= Len(df.rows)
    /\ tables[tname].exists
    /\ \A k \in DOMAIN ctp : ctp[k].c \in FieldNames(tables[tname])
    /\ Len(tables[tname].pk) > 0
    /\ Holders(tables[tname], Offered) # {}

\* no table holds a row without a declared primary key, or two rows with one key
UniqueKeys ==
    \A n \in TableNames :
        \A a \in BagToSet(tables[n].rows) :
            /\ Len(tables[n].pk) > 0
            /\ CopiesIn(a, tables[n].rows) = 1
            /\ Holders(tables[n], a) = {a}

C2_CreateTwice ==
    [][(step' = "createTable" /\ tables[tname'].exists) =>
            /\ tables' = tables
            /\ out' = <<Msg("Warning: Table already exists", tname', Null)>>
            /\ exc' = ""
            /\ conns' = conns]_vars

\* createTable has just warned about a table that holds rows
C2_Witness ==
    /\ step = "createTable"
    /\ out = <<Msg("Warning: Table already exists", tname, Null)>>
    /\ exc = ""
    /\ tables[tname].exists
    /\ BagToSet(tables[tname].rows) # {}

\* C3: whenever createTable, addPrimaryKeys or to_access is over, by its end or
\* by an exception, no connection it opened is still open.
C3_Released == pc = "idle" => conns = 0

---------------------------------------------------------------------------
(* The normalizers' claims, checked under SpecNorm. *)

\* the text is letters, one or more of _ and -, digits, and nothing else
AreaForm(x) ==
    /\ ~x.none
    /\ LET l == RunLen(x.s, 1, Letters)
           p == RunLen(x.s, 1 + l, Seps)
           d == RunLen(x.s, 1 + l + p, Digits)
       IN  l >= 1 /\ p >= 1 /\ d >= 1 /\ l + p + d = Len(x.s)

\* LETTERS-YEAR of such a text, YEAR prefixed with 19 when it has 2 digits
AreaExpected(x) ==
    LET l == RunLen(x.s, 1, Letters)
        p == RunLen(x.s, 1 + l, Seps)
        d == RunLen(x.s, 1 + l + p, Digits)
        year == Slice(x.s, 1 + l + p, d)
    IN  UpperStr(Slice(x.s, 1, l) \o <<"-">>
                 \o (IF d = 2 THEN <<"1", "9">> \o year ELSE year))

\* C5: normNameArea of letters, separators, digits returns LETTERS-YEAR
\* upper-cased, the year prefixed with 19 when it has exactly 2 digits.
C5_AreaNormalized ==
    (npc = "called" /\ nkind = "Area" /\ AreaForm(nname)) =>
        /\ nout.exc = ""
        /\ nout.ret = PyStr(AreaExpected(nname))

\* y is upper-case NAME-YEAR (parts = 2) or NAME-YEAR-NUMBER (parts = 3), YEAR of 4 digits
Canonical(y, parts) ==
    LET l  == RunLen(y, 1, Range(Upper))
        d1 == RunLen(y, l + 2, Digits)
        d2 == RunLen(y, l + d1 + 3, Digits)
    IN  /\ l >= 1
        /\ Len(y) >= l + 1 /\ y[l + 1] = "-"
        /\ d1 = 4
        /\ IF parts = 2 THEN Len(y) = l + 1 + d1
           ELSE /\ Len(y) = l + d1 + d2 + 2
                /\ y[l + d1 + 2] = "-"
                /\ d2 >= 1

\* C6: every value a normalizer returns is upper-case and of the form
\* NAME-YEAR-NUMBER (Line) or NAME-YEAR (Area) with a YEAR of exactly 4 digits.
C6_Canonical ==
    (npc = "called" /\ ~nout.ret.none) =>
        Canonical(nout.ret.s, IF nkind = "Line" THEN 3 ELSE 2)

\* C7: a normalizer applied to a value it returned returns that value again.
C7_Idempotent ==
    npc = "again" => (nout.exc = "" /\ nout.ret = nfirst.ret)

\* normNameLine has been applied to the A-1999-9 it made of a 2-digit year
C7_Witness ==
    /\ npc = "again"
    /\ nkind = "Line"
    /\ nfirst.ret = PyStr(<<"A", "-", "1", "9", "9", "9", "-", "9">>)
    /\ nout.ret = nfirst.ret

\* the input is no text, or a text the entry point's pattern does not match
Unmatched(kind, x) ==
    \/ x.none
    \/ IF kind = "Line" THEN ~plineSearch(x.s).matched ELSE ~pareaSearch(x.s).matched

\* C8: on an input that does not match (a text, or the None of a lookup that
\* found nothing) a normalizer prints an error naming the input and returns
\* None without raising.
C8_Recoverable ==
    (npc = "called" /\ Unmatched(nkind, nname)) =>
        /\ nout.exc = ""
        /\ nout.ret = PyNone
        /\ nout.printed = <<ErrorMsg(nkind, nname)>>

---------------------------------------------------------------------------
(* The header locators' claims, checked under SpecHdr. *)

HasMarked(d, m) == \E k \in DOMAIN d : StartsWith(d[k], m)

\* the position in d (from 1) of the first line that starts with the marker
FirstMarked(d, m) ==
    CHOOSE k \in DOMAIN d : StartsWith(d[k], m) /\ \A j \in 1..(k - 1) : ~StartsWith(d[j], m)

Locate(conv, d, m) ==
    IF conv = "before" THEN _skiprows_header_before(d, m) ELSE _skiprows_header_after(d, m)

\* the lines a locator has read when it decides on the marked k-th line: up to
\* that line (before), up to the line after it if there is one (after)
DecidedBy(conv, d, k) ==
    SubSeq(d, 1, IF conv = "before" \/ k = Len(d) THEN k ELSE k + 1)

\* C4: when no line starts with the marker, a locator signals a failure of its
\* own instead of returning.
C4_HeaderNotFound ==
    (hpc = "located" /\ ~HasMarked(doc, mark)) => hout.exc # ""

\* C10 as claimed: whenever a line is marked, with i the zero-based index of the
\* first, the before-locator returns (i, line i-1) and the after-locator
\* returns (i+1, line i+1).
C10_AlwaysReturns ==
    (hpc = "located" /\ HasMarked(doc, mark)) =>
        LET k == FirstMarked(doc, mark)
        IN  /\ hout.exc = ""
            /\ ~hout.ret.none
            /\ IF hconv = "before"
               THEN hout.ret.n = k - 1 /\ (k >= 2 => hout.ret.r = doc[k - 1])
               ELSE hout.ret.n = k /\ (k < Len(doc) => hout.ret.r = doc[k + 1])

\* C10: with i the zero-based index of the first marked line, the before-locator
\* returns (i, line i-1) when i >= 1 and raises UnboundLocalError when i = 0;
\* the after-locator returns (i+1, line i+1) when line i+1 exists and returns
\* None when the marked line is the last.  The lines after the marked line
\* (before) or after the returned line (after) do not influence the result.
C10_Located ==
    (hpc = "located" /\ HasMarked(doc, mark)) =>
        LET k == FirstMarked(doc, mark)
        IN  /\ hconv = "before" /\ k >= 2 =>
                    hout = Result(HdrRet(k - 1, doc[k - 1]), NoPrint, "")
            /\ hconv = "before" /\ k = 1 =>
                    hout = Result(HdrNone, NoPrint, "UnboundLocalError")
            /\ hconv = "after" /\ k < Len(doc) =>
                    hout = Result(HdrRet(k, doc[k + 1]), NoPrint, "")
            /\ hconv = "after" /\ k = Len(doc) =>
                    hout = Result(HdrNone, NoPrint, "")
            /\ hout = Locate(hconv, DecidedBy(hconv, doc, k), mark)

\* the before-locator has returned the line before a marked second line, a line follows
C10_Witness ==
    /\ hpc = "located"
    /\ hconv = "before"
    /\ Len(doc) = 3
    /\ HasMarked(doc, mark)
    /\ FirstMarked(doc, mark) = 2
    /\ hout = Result(HdrRet(1, doc[1]), NoPrint, "")
    /\ doc[1] # doc[2]

---------------------------------------------------------------------------
(* The fixed-width derivation's claims, checked under SpecFwf. *)

\* the header line _widths_skiprows works on: the line after the '<<' line
Header == IF Len(doc) >= 2 THEN doc[2] ELSE <<>>

WithoutTerminator(h) ==
    IF Len(h) > 0 /\ h[Len(h)] = "\n" THEN SubSeq(h, 1, Len(h) - 1) ELSE h

\* a header line of whitespace-separated names, ended by its line terminator
Terminated(h) == Len(Split(h)) >= 1 /\ h[Len(h)] = "\n"

\* such a line that also begins with whitespace
Indented(h) == Terminated(h) /\ h[1] \in Spaces

\* what the effective length of a header line may mean: its length as read,
\* without its terminator, or without any trailing whitespace
EffectiveLengths(h) == {Len(h), Len(WithoutTerminator(h)), Len(RStrip(h))}

\* C9 as claimed: for every header line of whitespace-separated names the
\* widths sum to the line's effective length, and slicing and trimming the line
\* gives back its names.
C9_AllHeaders ==
    (wpc # "ready" /\ Terminated(Header)) =>
        /\ wout.exc = ""
        /\ SumSeq(wout.ret.w) \in EffectiveLengths(Header)
        /\ wpc = "read" => wcols = Split(Header)

\* C9: for every header line that begins with whitespace and ends with its line
\* terminator, _widths_skiprows returns widths that sum to one more than the
\* line's length without its trailing whitespace, and slicing the line with
\* them and trimming gives back its names, all of them, in order.
C9_IndentedHeaders ==
    (wpc # "ready" /\ Indented(Header)) =>
        /\ wout.exc = ""
        /\ SumSeq(wout.ret.w) = Len(RStrip(Header)) + 1
        /\ Len(wout.ret.w) = Len(Split(Header))
        /\ wpc = "read" => wcols = Split(Header)

\* the header " A  B" has been sliced into A and B
C9_Witness ==
    /\ wpc = "read"
    /\ Header = <<" ", "A", " ", " ", "B", "\n">>
    /\ wout.ret.w = <<3, 3>>
    /\ wcols = <<<<"A">>, <<"B">>>>

=============================================================================
